---- MODULE Spec2Model ----
(***************************************************************************)
(* Card / deck generation pipeline of learnit-anki.                        *)
(*                                                                         *)
(* GenerateDeckUseCase.execute queues one GenerateCardUseCase.execute      *)
(* coroutine per sentence, awaits asyncio.gather with                      *)
(* return_exceptions=True, partitions the results, builds a Deck and       *)
(* awaits the exporter.  Every `await` of a port is a suspension point of  *)
(* the coroutine: pc[i] names the await the pipeline of sentence i is      *)
(* suspended on, and one action is the return of that await followed by    *)
(* the code up to the next await.                                          *)
(*                                                                         *)
(* Python values are records tagged by `kind`; Optional[str] values are    *)
(* strings, with "None" for Python's None.                                 *)
(*                                                                         *)
(* Four specifications share the variables:                                *)
(*   Spec          the two use cases as the service container wires them,  *)
(*                 the exporter behind its port;                           *)
(*   SpecWiring    the same use cases with the grammar service wired in or *)
(*                 left out, every way of passing a language, and a        *)
(*                 translator that names its own target language;          *)
(*   SpecStableId  GenankiExporter._generate_stable_id on its own;         *)
(*   SpecExport    GenankiExporter.export_deck: deck id, card model and    *)
(*                 its cache, the notes and their guids.                   *)
(***************************************************************************)
EXTENDS Integers, Sequences, FiniteSets, TLC

\* ------------------------------------------------------------------ bounds
\* Largest batch (number of sentences) handed to GenerateDeckUseCase.execute.
MaxSentences == 3
\* Largest batch handed to it with include_audio=True (the audio and storage
\* ports add two awaits and their outcomes to every pipeline).
MaxAudioSentences == 2
\* Largest batch under SpecWiring, where the wiring, the language arguments and
\* the translator's answers vary more widely.
MaxWiringSentences == 1
\* Most export_deck calls in one behaviour of SpecExport.
MaxExports == 3
\* Most task ids POST /api/v1/decks issues in one behaviour of SpecApi.
MaxTasks == 2
\* Most decks handed to the exporter in one behaviour of SpecAudio (each by a
\* run of its own).
MaxAudioDecks == 2
\* Most cards of a deck handed to export_deck in SpecPackage.
MaxPackageCards == 2

\* --------------------------------------------------------- configuration
\* Defaults given to both use cases at construction (create_card_generator,
\* create_deck_generator pass the same settings to both).
default_source_lang == "fr"
default_target_lang == "en"

\* The (source_lang, target_lang) arguments a caller may pass: each of the two
\* is once left out (None) and once given.
LangArgs == {<<"None", "es">>, <<"de", "None">>}

\* The deck name passed by the caller.
DeckNames == {"D"}

\* ----------------------------------------------------------------- values
NoneV == [kind |-> "None"]

\* Non-empty audio data.
Bytes == [kind |-> "bytes"]

\* Python truthiness of an Optional[str].
Falsy(s) == s \in {"None", ""}

\* `a or b` on Optional[str] values.
Or(a, b) == IF Falsy(a) THEN b ELSE a

\* models.Sentence: text, language, id (uuid4 per construction: one per
\* pipeline, here the pipeline's index).
Sentence(text, language, id) ==
    [kind |-> "Sentence", text |-> text, language |-> language, id |-> id]

\* models.Translation: the translated text is that of `text`.
Translation(text, target_language) ==
    [kind |-> "Translation", text |-> text, target_language |-> target_language]

\* models.WordBreakdown of the sentence `text`.
WordBreakdown(text) == [kind |-> "WordBreakdown", text |-> text]

\* models.AudioFile; the filename is the hash of "{language}-{text}", kept as
\* the pair that is hashed.  The optional url, duration and provider fields
\* are not kept.
AudioFile(text, hashed_language, language) ==
    [kind |-> "AudioFile", filename |-> <<hashed_language, text>>,
     language |-> language]

\* models.FlashCard.
FlashCard(sentence, translation, word_breakdown, audio, grammar_notes) ==
    [kind |-> "FlashCard", sentence |-> sentence, translation |-> translation,
     word_breakdown |-> word_breakdown, audio |-> audio,
     grammar_notes |-> grammar_notes]

\* models.Deck.
Deck(name, cards, language_pair) ==
    [kind |-> "Deck", name |-> name, cards |-> cards,
     language_pair |-> language_pair]

\* An exception object: its type and the call that raised it.
Exception(type, origin) == [kind |-> "Exception", type |-> type, origin |-> origin]

\* The frame of a coroutine that is not running (not started, or finished).
NoFrame == [kind |-> "NoFrame"]

\* What a port has been seen to return for one sentence: "-" not called yet.
NoReturns ==
    [translate |-> "-", analyze |-> "-", audio |-> "-", save |-> "-",
     grammar |-> "-"]

\* How often GenerateCardUseCase.execute ran for one sentence, and how often it
\* invoked each port.
NoCalls ==
    [execute |-> 0, translate |-> 0, analyze |-> 0, audio |-> 0, save |-> 0,
     grammar |-> 0]

\* The languages a port call was given: <<>> while it has not been called.
NoPassed == [translate |-> <<>>, analyze |-> <<>>, audio |-> <<>>, grammar |-> <<>>]

\* ------------------------------------------------------------------ state
VARIABLES
    dpc,         \* GenerateDeckUseCase.execute: "idle", "gather", "export", "done"
    args,        \* the arguments of the running GenerateDeckUseCase.execute
    pc,          \* pc[i]: the await the pipeline of sentence i is suspended on
    frame,       \* frame[i]: the locals of GenerateCardUseCase.execute for sentence i
    result,      \* result[i]: the outcome of the pipeline: a FlashCard or an exception
    returned,    \* returned[i]: what each port returned for sentence i
    calls,       \* calls[i]: how often each port was invoked for sentence i
    storage,     \* filenames the storage service holds
    deck,        \* the Deck built by GenerateDeckUseCase.execute, or NoneV
    exportCalls, \* the decks export_deck was invoked with, in order
    ret,         \* the outcome of GenerateDeckUseCase.execute
    outOfOrder,  \* history: some pipeline finished before one of a lower index
    passed,      \* passed[i]: the languages each port call for sentence i was given
    exportOutcome, \* history: how the export_deck call ended ("-": not yet)
    grammar_service, \* GenerateCardUseCase.grammar: the service wired in, or "None"
    sha256,      \* the digest prefix hashlib.sha256 gives for each hashed string
    stable_id_call, \* the last call of _generate_stable_id, with its result
    model_cache, \* model_cache[e]: GenankiExporter._model_cache of exporter e
    exports,     \* history: what each export_deck call put into its package
    TASK_STATUS_DB, \* api/main.py: the status record stored for each task id
    background,  \* background[t]: run_deck_generation_background of task id t
    status_query, \* the last GET /api/v1/decks/status/{task_id} and its answer
    celery,      \* generate_deck_task of the Celery worker
    openai_response, \* what the OpenAI API answers to the dictionary adapter
    md5,         \* the digest hashlib.md5 gives for each hashed string
    search,      \* SearchSentencesUseCase: the running call and its outcome
    id_strings   \* the strings two decks are hashed from

vars == <<dpc, args, pc, frame, result, returned, calls, storage, deck,
          exportCalls, ret, outOfOrder, passed, exportOutcome,
          grammar_service, sha256, stable_id_call, model_cache, exports,
          TASK_STATUS_DB, background, status_query, celery, openai_response,
          md5, search, id_strings>>

\* The state of the background wrappers (API task, Celery task).
wrapperVars == <<TASK_STATUS_DB, background, status_query, celery>>

\* The state outside the two use cases and the exporter adapter: the
\* wrappers, the providers' answers, the search use case and the deck keys.
outerVars == <<wrapperVars, openai_response, md5, search, id_strings>>

\* The state of the exporter adapter, which the use cases never touch.
exporterVars == <<sha256, stable_id_call, model_cache, exports>>

\* The state of the two use cases, which the exporter adapter never touches.
useCaseVars == <<dpc, args, pc, frame, result, returned, calls, storage, deck,
                 exportCalls, ret, outOfOrder, passed, exportOutcome,
                 grammar_service>>

NoArgs == [kind |-> "NoArgs"]
Pending == [kind |-> "pending"]

\* The indices of the sentences of the running batch.
Idx == IF args = NoArgs THEN {} ELSE 1..Len(args.sentences)

\* The batches a caller may pass: 1..MaxSentences sentences with distinct texts.
Batches == {[i \in 1..n |-> i] : n \in 1..MaxSentences}

\* Both use cases constructed, GenerateDeckUseCase.execute not called yet.
UseCasesIdle ==
    /\ dpc = "idle"
    /\ args = NoArgs
    /\ pc = <<>>
    /\ frame = <<>>
    /\ result = <<>>
    /\ returned = <<>>
    /\ calls = <<>>
    /\ storage = {}
    /\ deck = NoneV
    /\ exportCalls = <<>>
    /\ ret = Pending
    /\ outOfOrder = FALSE
    /\ passed = <<>>
    /\ exportOutcome = "-"

\* The exporter instances of a run of the program (the container builds one;
\* a second process builds its own).
Exporters == {"e1", "e2"}

\* Exporters constructed (an empty _model_cache each), nothing exported yet.
ExporterIdle ==
    /\ stable_id_call = NoneV
    /\ model_cache = [e \in Exporters |-> <<>>]
    /\ exports = <<>>

\* The task ids POST /api/v1/decks may draw (uuid4: any id not drawn before).
TaskIds == 1..MaxTasks

\* A background task that was never added.  pc: "-", "added" (by add_task),
\* "calling" (inside use_case.execute), "ended" (the function returned) or
\* "crashed" (it raised); outcome: what execute returned or raised, Pending if
\* it was not called; cards: how many cards that call gathered.
NoBackground == [pc |-> "-", request |-> NoArgs, outcome |-> Pending, cards |-> 0]

\* The Celery task before it is run.
NoCelery == [pc |-> "idle", outcome |-> Pending, cards |-> 0]

\* The API with an empty TASK_STATUS_DB, no request made; the Celery task not run.
WrappersIdle ==
    /\ TASK_STATUS_DB = <<>>
    /\ background = [t \in TaskIds |-> NoBackground]
    /\ status_query = NoneV
    /\ celery = NoCelery

\* No provider answer is fixed and nothing is hashed with md5.
ProvidersIdle ==
    /\ openai_response = <<>>
    /\ md5 = <<>>

\* SearchSentencesUseCase constructed, not called.
SearchIdle == search = NoneV

\* No deck key computed.
KeysIdle == id_strings = NoneV

\* Nothing outside the two use cases and the exporter adapter is in use.
OuterIdle == WrappersIdle /\ ProvidersIdle /\ SearchIdle /\ KeysIdle

\* The use cases as the service container wires them: the grammar service is
\* always there.  The exporter adapter stays behind the DeckExporter port
\* (ExportResults), so nothing is hashed.
Init ==
    /\ UseCasesIdle
    /\ grammar_service = "OpenAIGrammarAdapter"
    /\ sha256 = <<>>
    /\ ExporterIdle
    /\ OuterIdle

\* Languages resolved by GenerateDeckUseCase.execute.
DeckSrcLang == Or(args.source_lang, default_source_lang)
DeckTgtLang == Or(args.target_lang, default_target_lang)

\* Faulty variant: the source language passed in is ignored.
CardSrcLang_DefaultOnly == default_source_lang

\* Languages resolved by GenerateCardUseCase.execute from what the deck passes.
CardSrcLang == Or(DeckSrcLang, default_source_lang)
CardTgtLang == Or(DeckTgtLang, default_target_lang)

\* The arguments are bound and one GenerateCardUseCase.execute coroutine per
\* sentence is queued for asyncio.gather.
Queue(sentences, deck_name, source_lang, target_lang, include_audio, include_grammar) ==
    /\ dpc' = "gather"
    /\ args' = [sentences |-> sentences, deck_name |-> deck_name,
                source_lang |-> source_lang, target_lang |-> target_lang,
                include_audio |-> include_audio,
                include_grammar |-> include_grammar]
    /\ pc' = [i \in 1..Len(sentences) |-> "pending"]
    /\ frame' = [i \in 1..Len(sentences) |-> NoFrame]
    /\ result' = [i \in 1..Len(sentences) |-> Pending]
    /\ returned' = [i \in 1..Len(sentences) |-> NoReturns]
    /\ calls' = [i \in 1..Len(sentences) |-> NoCalls]
    /\ passed' = [i \in 1..Len(sentences) |-> NoPassed]

\* GenerateDeckUseCase.execute up to `await asyncio.gather(...)`: resolve the
\* languages, create one GenerateCardUseCase.execute coroutine per sentence.
Execute(sentences, deck_name, source_lang, target_lang, include_audio, include_grammar) ==
    /\ dpc = "idle"
    /\ Queue(sentences, deck_name, source_lang, target_lang, include_audio,
             include_grammar)
    /\ UNCHANGED <<storage, deck, exportCalls, ret, outOfOrder>>
    /\ UNCHANGED <<exportOutcome, grammar_service, exporterVars, outerVars>>

\* ------------------------------------------------------ the card pipeline
\* The ports' possible answers.  A port either returns one of these or raises
\* (PortRaises).
\* TranslationService.translate: a Translation (whose target_language an
\* adapter may leave empty) or None.
TranslateResults(i) ==
    IF i \in Idx
    THEN {Translation(args.sentences[i], CardTgtLang),
          Translation(args.sentences[i], ""), NoneV}
    ELSE {}

\* DictionaryService.analyze_sentence: a WordBreakdown or None.
AnalyzeResults(i) ==
    IF i \in Idx THEN {WordBreakdown(args.sentences[i]), NoneV} ELSE {}

\* AudioService.generate_audio: (AudioFile, bytes) or (None, None).  The
\* adapter names the file after the hash of "{language}-{text}" and leaves
\* AudioFile.language unset (GoogleTTSAdapter).
AudioResults(i) ==
    IF i \in Idx
    THEN {<<AudioFile(args.sentences[i], CardSrcLang, "None"), Bytes>>,
          <<NoneV, NoneV>>}
    ELSE {}

\* StorageService.save_audio: the location (a path or a URL), or None on
\* failure.
SaveResults == {"location", "None"}

\* GrammarService.explain_grammar: a list of notes, possibly empty.
GrammarResults == {<<>>, <<"note">>}

\* Faulty variant: `self.grammar` is not looked at.
GrammarConfigured_Always == TRUE

\* `self.grammar` is truthy: a grammar service was given at construction.
GrammarConfigured == grammar_service # "None"

\* The coroutine of sentence i finishes (returns or raises).
Finish(i) ==
    /\ pc' = [pc EXCEPT ![i] = "done"]
    /\ outOfOrder' = (outOfOrder \/ \E k \in 1..(i - 1) : pc[k] # "done")

\* Step 5: assemble the FlashCard from the locals and return it.
Assemble(i, f, grammar_notes) ==
    /\ Finish(i)
    /\ result' = [result EXCEPT ![i] =
          FlashCard(f.sentence, f.translation, f.word_breakdown, f.audio_model,
                    grammar_notes)]
    /\ frame' = [frame EXCEPT ![i] = NoFrame]

\* An exception leaves GenerateCardUseCase.execute: the coroutine ends with it.
Raise(i, exc) ==
    /\ Finish(i)
    /\ result' = [result EXCEPT ![i] = exc]
    /\ frame' = [frame EXCEPT ![i] = NoFrame]

\* Step 4: grammar notes if requested and a grammar service is configured,
\* else assemble with the empty list.  `f` holds the locals so far.
GrammarStep(i, f) ==
    IF args.include_grammar /\ GrammarConfigured
    THEN /\ pc' = [pc EXCEPT ![i] = "grammar"]
         /\ frame' = [frame EXCEPT ![i] = f]
         /\ calls' = [calls EXCEPT ![i].grammar = @ + 1]
         /\ passed' = [passed EXCEPT ![i].grammar = <<CardSrcLang>>]
         /\ UNCHANGED <<result, outOfOrder>>
    ELSE /\ Assemble(i, f, <<>>)
         /\ UNCHANGED <<calls, passed>>

\* Faulty variant: the coroutines are awaited one after the other, in a loop.
CanStart_Sequential(i) ==
    /\ dpc = "gather" /\ i \in Idx /\ pc[i] = "pending"
    /\ \A k \in 1..(i - 1) : pc[k] = "done"

\* A pipeline may take its first step: asyncio.gather has wrapped the queued
\* coroutines in tasks, all scheduled at once.
CanStart(i) == dpc = "gather" /\ i \in Idx /\ pc[i] = "pending"

\* Faulty variant: the audio is synthesized first, before the translation.
CardStart_AudioFirst(i) ==
    /\ CanStart(i)
    /\ pc' = [pc EXCEPT ![i] = "audio"]
    /\ frame' = [frame EXCEPT ![i] =
          [kind |-> "Frame",
           sentence |-> Sentence(args.sentences[i], CardSrcLang, i),
           translation |-> NoneV, word_breakdown |-> NoneV,
           generated_audio_model |-> NoneV, audio_model |-> NoneV]]
    /\ calls' = [calls EXCEPT ![i].execute = @ + 1, ![i].audio = @ + 1]
    /\ passed' = [passed EXCEPT ![i].audio = <<CardSrcLang>>]
    /\ UNCHANGED <<dpc, args, result, returned, storage, deck, exportCalls, ret,
                   outOfOrder>>
    /\ UNCHANGED <<exportOutcome, grammar_service, exporterVars, outerVars>>

\* GenerateCardUseCase.execute up to `await self.translator.translate(...)`.
CardStart(i) ==
    /\ CanStart(i)
    /\ pc' = [pc EXCEPT ![i] = "translate"]
    /\ frame' = [frame EXCEPT ![i] =
          [kind |-> "Frame",
           sentence |-> Sentence(args.sentences[i], CardSrcLang, i),
           translation |-> NoneV, word_breakdown |-> NoneV,
           generated_audio_model |-> NoneV, audio_model |-> NoneV]]
    /\ calls' = [calls EXCEPT ![i].execute = @ + 1, ![i].translate = @ + 1]
    /\ passed' = [passed EXCEPT ![i].translate = <<CardSrcLang, CardTgtLang>>]
    /\ UNCHANGED <<dpc, args, result, returned, storage, deck, exportCalls, ret,
                   outOfOrder>>
    /\ UNCHANGED <<exportOutcome, grammar_service, exporterVars, outerVars>>

\* translate returned `r`: read r.target_language (AttributeError on None), fill
\* it in when empty, then `await self.dictionary.analyze_sentence(...)`.
TranslateReturns(i, r) ==
    /\ i \in Idx /\ pc[i] = "translate"
    /\ returned' = [returned EXCEPT ![i].translate = r.kind]
    /\ IF r = NoneV
       THEN /\ Raise(i, Exception("AttributeError", "execute"))
            /\ UNCHANGED <<calls, passed>>
       ELSE /\ pc' = [pc EXCEPT ![i] = "analyze"]
            /\ frame' = [frame EXCEPT ![i].translation =
                  IF Falsy(r.target_language)
                  THEN [r EXCEPT !.target_language = CardTgtLang]
                  ELSE r]
            /\ calls' = [calls EXCEPT ![i].analyze = @ + 1]
            /\ passed' = [passed EXCEPT ![i].analyze = <<CardSrcLang, CardTgtLang>>]
            /\ UNCHANGED <<result, outOfOrder>>
    /\ UNCHANGED <<dpc, args, storage, deck, exportCalls, ret>>
    /\ UNCHANGED <<exportOutcome, grammar_service, exporterVars, outerVars>>

\* Faulty variant: the audio step is taken whether or not include_audio is set.
AnalyzeReturns_AlwaysAudio(i, r) ==
    /\ i \in Idx /\ pc[i] = "analyze"
    /\ returned' = [returned EXCEPT ![i].analyze = r.kind]
    /\ pc' = [pc EXCEPT ![i] = "audio"]
    /\ frame' = [frame EXCEPT ![i].word_breakdown = r]
    /\ calls' = [calls EXCEPT ![i].audio = @ + 1]
    /\ passed' = [passed EXCEPT ![i].audio = <<CardSrcLang>>]
    /\ UNCHANGED <<dpc, args, result, storage, deck, exportCalls, ret, outOfOrder>>
    /\ UNCHANGED <<exportOutcome, grammar_service, exporterVars, outerVars>>

\* analyze_sentence returned `r` (kept as it is, None included); then the audio
\* step if include_audio, else the grammar step.
AnalyzeReturns(i, r) ==
    /\ i \in Idx /\ pc[i] = "analyze"
    /\ returned' = [returned EXCEPT ![i].analyze = r.kind]
    /\ LET f == [frame[i] EXCEPT !.word_breakdown = r] IN
       IF args.include_audio
       THEN /\ pc' = [pc EXCEPT ![i] = "audio"]
            /\ frame' = [frame EXCEPT ![i] = f]
            /\ calls' = [calls EXCEPT ![i].audio = @ + 1]
            /\ passed' = [passed EXCEPT ![i].audio = <<CardSrcLang>>]
            /\ UNCHANGED <<result, outOfOrder>>
       ELSE GrammarStep(i, f)
    /\ UNCHANGED <<dpc, args, storage, deck, exportCalls, ret>>
    /\ UNCHANGED <<exportOutcome, grammar_service, exporterVars, outerVars>>

\* `if generated_audio_model and audio_data`.
AudioGenerated(generated_audio_model, audio_data) ==
    generated_audio_model # NoneV /\ audio_data # NoneV

\* Faulty variant ("Option 1" of the comment): a failed audio generation fails
\* the card.
AudioSkipped_FailHard(i) ==
    /\ Raise(i, Exception("ValueError", "execute"))
    /\ UNCHANGED <<calls, passed>>

\* The else branch: audio generation was skipped or failed; the card goes on
\* without audio ("Option 2"), to the grammar step.
AudioSkipped(i) == GrammarStep(i, frame[i])

\* generate_audio returned (generated_audio_model, audio_data): save it when both
\* are there, else go on without audio.
AudioReturns(i, r) ==
    /\ i \in Idx /\ pc[i] = "audio"
    /\ returned' = [returned EXCEPT ![i].audio = r[1].kind]
    /\ IF AudioGenerated(r[1], r[2])
       THEN /\ pc' = [pc EXCEPT ![i] = "save"]
            /\ frame' = [frame EXCEPT ![i].generated_audio_model = r[1]]
            /\ calls' = [calls EXCEPT ![i].save = @ + 1]
            /\ UNCHANGED <<result, outOfOrder, passed>>
       ELSE AudioSkipped(i)
    /\ UNCHANGED <<dpc, args, storage, deck, exportCalls, ret>>
    /\ UNCHANGED <<exportOutcome, grammar_service, exporterVars, outerVars>>

\* The audio model put on the card once save_audio returned storage_location:
\* the generated model with its language set, whatever storage_location is.
SavedAudioModel(generated_audio_model, storage_location, src_lang) ==
    [generated_audio_model EXCEPT !.language = src_lang]

\* save_audio returned storage_location (the service holds the file unless it
\* reports failure); the model becomes the card's audio; then the grammar step.
SaveReturns(i, storage_location) ==
    /\ i \in Idx /\ pc[i] = "save"
    /\ returned' = [returned EXCEPT ![i].save = storage_location]
    /\ storage' = IF storage_location = "None" THEN storage
                  ELSE storage \cup {frame[i].generated_audio_model.filename}
    /\ GrammarStep(i, [frame[i] EXCEPT !.audio_model =
          SavedAudioModel(frame[i].generated_audio_model, storage_location,
                          CardSrcLang)])
    /\ UNCHANGED <<dpc, args, deck, exportCalls, ret>>
    /\ UNCHANGED <<exportOutcome, grammar_service, exporterVars, outerVars>>

\* explain_grammar returned the notes: assemble the card.
GrammarReturns(i, notes) ==
    /\ i \in Idx /\ pc[i] = "grammar"
    /\ returned' = [returned EXCEPT ![i].grammar = IF notes = <<>> THEN "empty" ELSE "notes"]
    /\ Assemble(i, frame[i], notes)
    /\ UNCHANGED <<dpc, args, calls, passed, storage, deck, exportCalls, ret>>
    /\ UNCHANGED <<exportOutcome, grammar_service, exporterVars, outerVars>>

\* Faulty variant: a port that raised is invoked again.
PortRaises_Retry(i) ==
    /\ i \in Idx /\ pc[i] \in {"translate", "analyze", "audio", "save", "grammar"}
    /\ returned' = [returned EXCEPT ![i] = [@ EXCEPT ![pc[i]] = "raise"]]
    /\ calls' = [calls EXCEPT ![i] = [@ EXCEPT ![pc[i]] = @ + 1]]
    /\ UNCHANGED <<dpc, args, pc, frame, result, storage, deck, exportCalls, ret,
                   outOfOrder, passed>>
    /\ UNCHANGED <<exportOutcome, grammar_service, exporterVars, outerVars>>

\* The port the pipeline is suspended on raises: nothing in
\* GenerateCardUseCase.execute catches it.
PortRaises(i) ==
    /\ i \in Idx /\ pc[i] \in {"translate", "analyze", "audio", "save", "grammar"}
    /\ returned' = [returned EXCEPT ![i] = [@ EXCEPT ![pc[i]] = "raise"]]
    /\ Raise(i, Exception("ProviderError", pc[i]))
    /\ UNCHANGED <<dpc, args, calls, passed, storage, deck, exportCalls, ret>>
    /\ UNCHANGED <<exportOutcome, grammar_service, exporterVars, outerVars>>

\* One step of the pipeline of sentence i.
PipelineStep(i) ==
    \/ CardStart(i)
    \/ \E r \in TranslateResults(i) : TranslateReturns(i, r)
    \/ \E r \in AnalyzeResults(i) : AnalyzeReturns(i, r)
    \/ \E r \in AudioResults(i) : AudioReturns(i, r)
    \/ \E r \in SaveResults : SaveReturns(i, r)
    \/ \E r \in GrammarResults : GrammarReturns(i, r)
    \/ PortRaises(i)

\* ------------------------------------------------------- the deck assembler
\* Faulty variant: gather without return_exceptions resolves with the first
\* exception.
GatherReady_FirstException ==
    \/ \A i \in Idx : pc[i] = "done"
    \/ \E i \in Idx : pc[i] = "done" /\ result[i].kind = "Exception"

\* asyncio.gather(return_exceptions=True) resolves once every task has finished.
GatherReady == \A i \in Idx : pc[i] = "done"

\* Its result: every task's card or exception, in the order of the tasks.
GatherResults == [i \in Idx |-> result[i]]

\* Faulty variant: every result that is not None counts as a card.
IsFlashCard_NotNone(r) == r.kind # "None"

\* `isinstance(result, FlashCard)`.
IsFlashCard(r) == r.kind = "FlashCard"

\* Faulty variant: each card is inserted at the front of cards.
Partition_Prepend(generated_results) ==
    LET sel == SelectSeq(generated_results, IsFlashCard)
    IN  [k \in 1..Len(sel) |-> sel[Len(sel) + 1 - k]]

\* The loop over generated_results: each FlashCard is appended to cards.
Partition(generated_results) == SelectSeq(generated_results, IsFlashCard)

\* Faulty variant: the empty-cards check is missing.
NoCards_Never(cards) == FALSE

\* `if not cards`.
NoCards(cards) == cards = <<>>

\* gather returned: partition; with no cards return the "Failed: ..." string,
\* else build the Deck and `await self.exporter.export_deck(...)`.
GatherReturned ==
    /\ dpc = "gather"
    /\ GatherReady
    /\ LET cards == Partition(GatherResults) IN
       IF NoCards(cards)
       THEN /\ dpc' = "done"
            /\ ret' = [kind |-> "return", value |-> "Failed: No cards generated"]
            /\ UNCHANGED <<deck, exportCalls>>
       ELSE /\ dpc' = "export"
            /\ deck' = Deck(args.deck_name, cards, <<DeckSrcLang, DeckTgtLang>>)
            /\ exportCalls' = Append(exportCalls, deck')
            /\ UNCHANGED ret
    /\ UNCHANGED <<args, pc, frame, result, returned, calls, passed, storage,
                   outOfOrder>>
    /\ UNCHANGED <<exportOutcome, grammar_service, exporterVars>>

\* The same when execute was called directly (no background wrapper).
GatherReturns == GatherReturned /\ UNCHANGED outerVars

\* DeckExporter.export_deck: the path written, or None on failure.
ExportResults == {"/out.apkg", "None"}

\* Faulty variant: execute returns the output path it asked for, whatever the
\* exporter returned.
ExportReturns_OutputPath(file_path) ==
    /\ dpc = "export"
    /\ dpc' = "done"
    /\ ret' = [kind |-> "return", value |-> "/out.apkg"]
    /\ exportOutcome' = file_path
    /\ UNCHANGED <<args, pc, frame, result, returned, calls, passed, storage,
                   deck, exportCalls, outOfOrder>>
    /\ UNCHANGED <<grammar_service, exporterVars, outerVars>>

\* export_deck returned file_path: execute returns it.
ExportReturned(file_path) ==
    /\ dpc = "export"
    /\ dpc' = "done"
    /\ ret' = [kind |-> "return", value |-> file_path]
    /\ exportOutcome' = file_path
    /\ UNCHANGED <<args, pc, frame, result, returned, calls, passed, storage,
                   deck, exportCalls, outOfOrder>>
    /\ UNCHANGED <<grammar_service, exporterVars>>

\* The same when execute was called directly.
ExportReturns(file_path) == ExportReturned(file_path) /\ UNCHANGED outerVars

\* export_deck raised: execute re-raises.
ExportRaised ==
    /\ dpc = "export"
    /\ dpc' = "done"
    /\ ret' = [kind |-> "raise", exc |-> Exception("ExportError", "export_deck")]
    /\ exportOutcome' = "raise"
    /\ UNCHANGED <<args, pc, frame, result, returned, calls, passed, storage,
                   deck, exportCalls, outOfOrder>>
    /\ UNCHANGED <<grammar_service, exporterVars>>

\* The same when execute was called directly.
ExportRaises == ExportRaised /\ UNCHANGED outerVars

Next ==
    \/ \E s \in Batches, n \in DeckNames, l \in LangArgs, ia \in BOOLEAN, ig \in BOOLEAN :
            /\ ia => Len(s) <= MaxAudioSentences
            /\ Execute(s, n, l[1], l[2], ia, ig)
    \/ \E i \in 1..MaxSentences : PipelineStep(i)
    \/ GatherReturns
    \/ \E p \in ExportResults : ExportReturns(p)
    \/ ExportRaises

Spec == Init /\ [][Next]_vars

\* -------------------------------------- any wiring, any language arguments
\* The same use cases with either wiring of the optional grammar service, every
\* way of passing a language (left out, empty, given) and a translator that
\* names its own target language.
WiringBatches == {[i \in 1..n |-> i] : n \in 1..MaxWiringSentences}
WiringLangArgs == {"None", "", "de"} \X {"None", "", "es"}

\* GenerateCardUseCase constructed with a grammar service or with None.
InitWiring ==
    /\ UseCasesIdle
    /\ grammar_service \in {"OpenAIGrammarAdapter", "None"}
    /\ sha256 = <<>>
    /\ ExporterIdle
    /\ OuterIdle

\* A Translation whose target_language is the translator's own name for the
\* language, not the code it was asked for.
OwnTargetTranslateResults(i) ==
    IF i \in Idx THEN {Translation(args.sentences[i], "en-US")} ELSE {}

NextWiring ==
    \/ \E s \in WiringBatches, n \in DeckNames, l \in WiringLangArgs,
          ia \in BOOLEAN, ig \in BOOLEAN :
            Execute(s, n, l[1], l[2], ia, ig)
    \/ \E i \in 1..MaxWiringSentences : PipelineStep(i)
    \/ \E i \in 1..MaxWiringSentences :
          \E r \in OwnTargetTranslateResults(i) : TranslateReturns(i, r)
    \/ GatherReturns
    \/ \E p \in ExportResults : ExportReturns(p)
    \/ ExportRaises

SpecWiring == InitWiring /\ [][NextWiring]_vars

\* ------------------------------------------------ the exporter's identifiers
\* A string is kept as the sequence of its parts, so that formatting is
\* concatenation and two different formats can give the same string.
\* f"{a}-{b}".
Dash(a, b) == a \o <<"-">> \o b

DEFAULT_DECK_ID_SALT == <<"anki-card-generator-deck-salt">>
DEFAULT_MODEL_ID_SALT == <<"anki-card-generator-model-salt">>

\* The language pairs of the decks handed to the exporter.
ExportLangPairs == {<<"fr", "en">>, <<"de", "en">>}

\* id_str of _generate_stable_deck_id: f"{deck_name}-{lang_pair[0]}-{lang_pair[1]}".
DeckIdStr(deck_name, lang_pair) ==
    Dash(Dash(<<deck_name>>, <<lang_pair[1]>>), <<lang_pair[2]>>)

\* model_id_str of _get_or_create_card_model: f"{source_lang_code}-{target_lang_code}".
ModelIdStr(lang_pair) == Dash(<<lang_pair[1]>>, <<lang_pair[2]>>)

\* The strings the exporter derives identifiers from, and the salts.
BaseStrings ==
    {DeckIdStr(n, p) : n \in DeckNames, p \in ExportLangPairs}
        \cup {ModelIdStr(p) : p \in ExportLangPairs}
Salts == {DEFAULT_DECK_ID_SALT, DEFAULT_MODEL_ID_SALT}

\* hexdigest()[:8]: eight hex digits, most significant first.  The digests the
\* hash is let to give: every pattern of all-zero / all-one digits between a
\* first digit with and without the top bit and a last digit with and without
\* the lowest bit.
HexDigests ==
    {<<a>> \o m \o <<z>> : a \in {0, 7, 8, 15}, m \in [1..6 -> {0, 15}],
                           z \in {0, 1, 15}}

\* The value of a string of hex digits.
RECURSIVE HexValue(_)
HexValue(digits) ==
    IF digits = <<>> THEN 0
    ELSE 16 * HexValue(SubSeq(digits, 1, Len(digits) - 1)) + digits[Len(digits)]

\* int(hash_value, 16) of eight hex digits, an unsigned 32-bit value, as its top
\* bit and its low 31 bits: the value is hi * 2^31 + lo.
Int16(hash_value) ==
    [hi |-> hash_value[1] \div 8,
     lo |-> HexValue(<<hash_value[1] % 8>> \o Tail(hash_value))]

\* 0x7FFFFFFF.
INT31_MASK == 2147483647

\* n & 0x7FFFFFFF: the top bit is cleared, the low 31 bits stay.
And7FFFFFFF(n) == n.lo

\* Faulty variant: a masked value of zero is returned as it is.
_generate_stable_id_NoRemap(base_string, salt) ==
    LET hash_input == Dash(base_string, salt)
        hash_value == sha256[hash_input]
    IN  And7FFFFFFF(Int16(hash_value))

\* GenankiExporter._generate_stable_id.
_generate_stable_id(base_string, salt) ==
    LET hash_input == Dash(base_string, salt)
        hash_value == sha256[hash_input]
        stable_id == And7FFFFFFF(Int16(hash_value))
    IN  IF stable_id # 0 THEN stable_id ELSE 1

\* One call of _generate_stable_id, on any of the strings with any digest.
InitStableId ==
    /\ UseCasesIdle
    /\ grammar_service = "OpenAIGrammarAdapter"
    /\ ExporterIdle
    /\ OuterIdle
    /\ \E b \in BaseStrings, s \in Salts, h \in HexDigests :
          sha256 = (Dash(b, s) :> h)

GenerateStableId(base_string, salt) ==
    /\ Dash(base_string, salt) \in DOMAIN sha256
    /\ stable_id_call = NoneV
    /\ stable_id_call' =
          [kind |-> "call", base_string |-> base_string, salt |-> salt,
           hash_value |-> sha256[Dash(base_string, salt)],
           result |-> _generate_stable_id(base_string, salt)]
    /\ UNCHANGED <<useCaseVars, sha256, model_cache, exports, outerVars>>

NextStableId == \E b \in BaseStrings, s \in Salts : GenerateStableId(b, s)

SpecStableId == InitStableId /\ [][NextStableId]_vars

\* ---------------------------------------------------------- the key strings
\* Deck names and language codes as the characters they are made of.  Both are
\* plain str in the code (LanguageCode is an alias of str) and nothing checks
\* them: names are free text, codes may carry a region ("pt-BR").
KeyDeckNames == {<<"a">>, <<"b">>, <<"a", "-", "b">>}
KeyLangCodes == {<<"a">>, <<"b">>, <<"a", "-", "b">>, <<"b", "-", "a">>}
KeyDecks ==
    {[deck_name |-> n, lang_pair |-> <<c, d>>] :
        n \in KeyDeckNames, c \in KeyLangCodes, d \in KeyLangCodes}

\* id_str of _generate_stable_deck_id, character by character:
\* f"{deck_name}-{lang_pair[0]}-{lang_pair[1]}".
id_str(deck_name, lang_pair) ==
    deck_name \o <<"-">> \o lang_pair[1] \o <<"-">> \o lang_pair[2]

\* model_id_str of _get_or_create_card_model, character by character:
\* f"{source_lang_code}-{target_lang_code}".
model_id_str(lang_pair) == lang_pair[1] \o <<"-">> \o lang_pair[2]

\* hash_input of _generate_stable_id: f"{base_string}-{salt}".
hash_input(base_string, salt) == base_string \o <<"-">> \o salt

\* Two decks are about to be exported, no key computed yet.
InitKeys ==
    /\ UseCasesIdle
    /\ grammar_service = "OpenAIGrammarAdapter"
    /\ sha256 = <<>>
    /\ ExporterIdle
    /\ WrappersIdle /\ ProvidersIdle /\ SearchIdle
    /\ \E d, e \in KeyDecks :
          id_strings = [kind |-> "keys", decks |-> <<d, e>>, deck_keys |-> <<>>,
                        model_keys |-> <<>>]

\* The strings fed to the hash for the deck id and for the model id of each of
\* the two decks.
ComputeKeys ==
    /\ id_strings.deck_keys = <<>>
    /\ id_strings' =
          [id_strings EXCEPT
             !.deck_keys =
                 [k \in 1..2 |->
                     hash_input(id_str(id_strings.decks[k].deck_name,
                                       id_strings.decks[k].lang_pair),
                                DEFAULT_DECK_ID_SALT)],
             !.model_keys =
                 [k \in 1..2 |->
                     hash_input(model_id_str(id_strings.decks[k].lang_pair),
                                DEFAULT_MODEL_ID_SALT)]]
    /\ UNCHANGED <<useCaseVars, exportOutcome, grammar_service, exporterVars,
                   wrapperVars, openai_response, md5, search>>

NextKeys == ComputeKeys

SpecKeys == InitKeys /\ [][NextKeys]_vars

\* ------------------------------------------------------ the exporter adapter
\* _generate_stable_deck_id.
_generate_stable_deck_id(deck_name, lang_pair) ==
    _generate_stable_id(DeckIdStr(deck_name, lang_pair), DEFAULT_DECK_ID_SALT)

\* genanki.Model: its id; the name and the field names are those of the pair.
Model(model_id, lang_pair) ==
    [kind |-> "Model", model_id |-> model_id, name |-> lang_pair]

\* Faulty variant: the cache is looked up without the language pair, so any
\* cached model is a hit.
_get_or_create_card_model_AnyCached(cache, lang_pair) ==
    IF DOMAIN cache # {}
    THEN cache[CHOOSE p \in DOMAIN cache : TRUE]
    ELSE Model(_generate_stable_id(ModelIdStr(lang_pair), DEFAULT_MODEL_ID_SALT),
               lang_pair)

\* _get_or_create_card_model on the exporter's `cache`: the cached model of the
\* pair, else a new one with the id derived from the pair.
_get_or_create_card_model(cache, lang_pair) ==
    IF lang_pair \in DOMAIN cache
    THEN cache[lang_pair]
    ELSE Model(_generate_stable_id(ModelIdStr(lang_pair), DEFAULT_MODEL_ID_SALT),
               lang_pair)

\* `self._model_cache[lang_pair] = model`, done when the pair was not cached.
CacheModel(cache, lang_pair, model) ==
    IF lang_pair \in DOMAIN cache
    THEN cache
    ELSE [p \in DOMAIN cache \cup {lang_pair} |->
             IF p = lang_pair THEN model ELSE cache[p]]

\* genanki.guid_for(*values): a hash of the values, kept as the values hashed.
guid_for(a, b) == [kind |-> "guid", of |-> <<a, b>>]

\* _convert_card_to_note: the note's sentence text, its SentenceId field and
\* its guid (the other fields are not kept).
_convert_card_to_note(card, model, lang_pair) ==
    [kind |-> "Note", model_id |-> model.model_id, text |-> card.sentence.text,
     sentence_id |-> card.sentence.id,
     guid |-> guid_for(card.sentence.id, model.model_id)]

\* str(uuid.uuid4()), the default of Sentence.id: a fresh value at every
\* construction, here the k-th Sentence of generation run `run`.
Uuid4(run, k) == <<"uuid4", run, k>>

\* The card GenerateCardUseCase.execute assembles for sentence `text`: a new
\* Sentence, the translation and the breakdown, no audio, no grammar notes.
GeneratedCard(text, lang_pair, id) ==
    FlashCard(Sentence(text, lang_pair[1], id), Translation(text, lang_pair[2]),
              WordBreakdown(text), NoneV, <<>>)

\* Two runs of generation: sentence 1 alone, then sentences 1 and 2.
GenerationRuns == {[run |-> 1, batch |-> <<1>>], [run |-> 2, batch |-> <<1, 2>>]}

\* The Deck GenerateDeckUseCase.execute builds in run g (every card succeeded).
GeneratedDeck(deck_name, lang_pair, g) ==
    Deck(deck_name,
         [k \in DOMAIN g.batch |-> GeneratedCard(g.batch[k], lang_pair, Uuid4(g.run, k))],
         lang_pair)

\* The strings export_deck hashes, and the digests the hash is let to give
\* them: low 31 bits zero, all ones, and 0000002a.
ExportHashInputs ==
    {Dash(DeckIdStr(n, p), DEFAULT_DECK_ID_SALT) : n \in DeckNames, p \in ExportLangPairs}
        \cup {Dash(ModelIdStr(p), DEFAULT_MODEL_ID_SALT) : p \in ExportLangPairs}
ExportDigests ==
    {<<8, 0, 0, 0, 0, 0, 0, 0>>, <<15, 15, 15, 15, 15, 15, 15, 15>>,
     <<0, 0, 0, 0, 0, 0, 2, 10>>}

\* Exporters constructed; sha256 is any function from the strings to the digests.
InitExport ==
    /\ UseCasesIdle
    /\ grammar_service = "OpenAIGrammarAdapter"
    /\ ExporterIdle
    /\ OuterIdle
    /\ sha256 \in [ExportHashInputs -> ExportDigests]

\* GenankiExporter.export_deck of exporter e on a deck with cards and a language
\* pair: the deck id, the card model (cached or created), one note per card.
\* No card of a generated deck fails conversion.  Writing the package changes
\* nothing here; its result (the path, or None) is what the deck use case gets
\* from the port (ExportResults).
ExportDeck(e, d) ==
    /\ Len(exports) < MaxExports
    /\ d.cards # <<>> /\ Len(d.language_pair) = 2
    /\ LET lang_pair == d.language_pair
           deck_id == _generate_stable_deck_id(d.name, lang_pair)
           card_model == _get_or_create_card_model(model_cache[e], lang_pair)
           notes == [k \in DOMAIN d.cards |->
                        _convert_card_to_note(d.cards[k], card_model, lang_pair)]
       IN  /\ model_cache' = [model_cache EXCEPT ![e] =
                                 CacheModel(@, lang_pair, card_model)]
           /\ exports' = Append(exports,
                 [exporter |-> e, name |-> d.name, language_pair |-> lang_pair,
                  cached |-> lang_pair \in DOMAIN model_cache[e],
                  deck_id |-> deck_id, model_id |-> card_model.model_id,
                  notes |-> notes])
    /\ UNCHANGED <<useCaseVars, sha256, stable_id_call, outerVars>>

NextExport ==
    \E e \in Exporters, n \in DeckNames, p \in ExportLangPairs, g \in GenerationRuns :
        ExportDeck(e, GeneratedDeck(n, p, g))

SpecExport == InitExport /\ [][NextExport]_vars

\* ----------------------------------------------------- export_deck, whole
\* The cards of the decks handed to export_deck in SpecPackage: sentence 1 or
\* 2, with or without an audio file.
PackageCards ==
    {[GeneratedCard(t, <<"fr", "en">>, Uuid4(1, t)) EXCEPT !.audio = a] :
        t \in {1, 2}, a \in {NoneV}} \cup
    {[GeneratedCard(t, <<"fr", "en">>, Uuid4(1, t)) EXCEPT
          !.audio = AudioFile(t, "fr", "fr")] : t \in {1, 2}}

\* The audio filenames of these cards.
PackageFilenames == {c.audio.filename : c \in {x \in PackageCards : x.audio # NoneV}}

\* Decks of up to MaxPackageCards cards; the language pair is a pair, has one
\* element, or is empty (falsy, as None is).
PackageDecks ==
    {Deck(n, cards, p) :
        n \in DeckNames,
        cards \in UNION {[1..k -> PackageCards] : k \in 0..MaxPackageCards},
        p \in {<<"fr", "en">>, <<"fr">>, <<>>}}

\* What export_deck did: `ret` is what it returned or raised, `file` what is
\* at the output path afterwards (nothing, a package, or an unfinished file).
Returned(value) == [kind |-> "return", value |-> value]
Package(notes, media_files) ==
    [kind |-> "Package", notes |-> notes, media_files |-> media_files]
NothingConverted ==
    [notes |-> <<>>, successful_cards |-> 0, failed_cards |-> 0,
     media_filenames |-> {}]
Exported(outcome, file, conv, card_model) ==
    [kind |-> "export", ret |-> outcome, file |-> file, conv |-> conv,
     card_model |-> card_model]

\* Faulty variant of the loop: the audio filename is collected before the
\* card is converted.
ConvertCards_MediaFirst(cards, raising, card_model, lang_pair) ==
    LET loop[k \in 0..Len(cards)] ==
            IF k = 0 THEN NothingConverted
            ELSE LET before == loop[k - 1]
                     card == cards[k]
                     media == IF card.audio # NoneV
                              THEN before.media_filenames \cup {card.audio.filename}
                              ELSE before.media_filenames
                 IN  IF k \in raising
                     THEN [before EXCEPT !.failed_cards = @ + 1,
                                         !.media_filenames = media]
                     ELSE [notes |-> Append(before.notes,
                                _convert_card_to_note(card, card_model, lang_pair)),
                           successful_cards |-> before.successful_cards + 1,
                           failed_cards |-> before.failed_cards,
                           media_filenames |-> media]
    IN  loop[Len(cards)]

\* The loop of export_deck over deck.cards; `raising` are the positions whose
\* conversion (or add_note) raises.  A card that raises counts as failed and
\* the loop goes on; one that converts is added, counted, and its audio
\* filename collected.
ConvertCards(cards, raising, card_model, lang_pair) ==
    LET loop[k \in 0..Len(cards)] ==
            IF k = 0 THEN NothingConverted
            ELSE LET before == loop[k - 1]
                     card == cards[k]
                 IN  IF k \in raising
                     THEN [before EXCEPT !.failed_cards = @ + 1]
                     ELSE [notes |-> Append(before.notes,
                                _convert_card_to_note(card, card_model, lang_pair)),
                           successful_cards |-> before.successful_cards + 1,
                           failed_cards |-> before.failed_cards,
                           media_filenames |->
                               IF card.audio # NoneV
                               THEN before.media_filenames \cup {card.audio.filename}
                               ELSE before.media_filenames]
    IN  loop[Len(cards)]

\* _resolve_media_paths: the filenames that are files in the storage directory.
_resolve_media_paths(filenames, stored) == filenames \cap stored

\* Faulty variant: a deck whose cards all failed is packaged all the same.
WritePackage_Always(conv, stored, write, output_path, card_model) ==
    LET package == Package(conv.notes,
                           _resolve_media_paths(conv.media_filenames, stored))
    IN  CASE write = "written" -> Exported(Returned(output_path), package, conv, card_model)
          [] write = "raised while writing" ->
                Exported(Returned("None"), [kind |-> "partial"], conv, card_model)
          [] OTHER -> Exported(Returned("None"), NoneV, conv, card_model)

\* export_deck after the loop: RuntimeError when no card was converted, else
\* the package is built and written; `write` says how mkdir and write_to_file
\* ended.  A write that raises returns None and may leave a partial file.
WritePackage(conv, stored, write, output_path, card_model) ==
    IF conv.successful_cards = 0
    THEN Exported(Exception("RuntimeError", "export_deck"), NoneV, conv, card_model)
    ELSE LET package == Package(conv.notes,
                                _resolve_media_paths(conv.media_filenames, stored))
         IN  CASE write = "written" ->
                    Exported(Returned(output_path), package, conv, card_model)
               [] write = "raised while writing" ->
                    Exported(Returned("None"), [kind |-> "partial"], conv, card_model)
               [] OTHER -> Exported(Returned("None"), NoneV, conv, card_model)

\* GenankiExporter.export_deck on the exporter's `cache`.
export_deck(cache, d, output_path, model_raises, raising, stored, write) ==
    IF d.cards = <<>> THEN Exported(Returned("None"), NoneV, NothingConverted, NoneV)
    ELSE IF d.language_pair = <<>> \/ Len(d.language_pair) # 2
    THEN Exported(Returned("None"), NoneV, NothingConverted, NoneV)
    ELSE IF model_raises
    THEN Exported(Returned("None"), NoneV, NothingConverted, NoneV)
    ELSE LET lang_pair == d.language_pair
             card_model == _get_or_create_card_model(cache, lang_pair)
             conv == ConvertCards(d.cards, raising, card_model, lang_pair)
         IN  WritePackage(conv, stored, write, output_path, card_model)

\* sha256 gives every string the digest 0000002a; no export yet.
InitPackage ==
    /\ UseCasesIdle
    /\ grammar_service = "OpenAIGrammarAdapter"
    /\ ExporterIdle
    /\ OuterIdle
    /\ sha256 = [x \in ExportHashInputs |-> <<0, 0, 0, 0, 0, 0, 2, 10>>]

\* The call of export_deck on a new exporter e, from its first line to its
\* return or raise (there is no await in it).  `exports` keeps the call: the
\* deck, which conversions raised, the files in storage, and what came of it.
ExportDeckCall(e, d, model_raises, raising, stored, write) ==
    /\ exports = <<>>
    /\ raising \subseteq DOMAIN d.cards
    /\ LET done == export_deck(model_cache[e], d, "/out.apkg", model_raises,
                               raising, stored, write)
       IN  /\ exports' = <<[exporter |-> e, deck |-> d, raising |-> raising,
                            model_raises |-> model_raises,
                            stored |-> stored, done |-> done]>>
           /\ model_cache' =
                 IF done.card_model = NoneV THEN model_cache
                 ELSE [model_cache EXCEPT ![e] =
                          CacheModel(@, d.language_pair, done.card_model)]
    /\ UNCHANGED <<useCaseVars, sha256, stable_id_call, outerVars>>

NextPackage ==
    /\ exports = <<>>
    /\ \E e \in Exporters, d \in PackageDecks, model_raises \in BOOLEAN,
          raising \in SUBSET (1..MaxPackageCards),
          stored \in SUBSET PackageFilenames,
          write \in {"written", "raised before writing", "raised while writing"} :
           ExportDeckCall(e, d, model_raises, raising, stored, write)

SpecPackage == InitPackage /\ [][NextPackage]_vars

\* ------------------------------------------------- SearchSentencesUseCase
\* What awaiting the search service can give: an exception, None, an empty
\* list, or a list of sentences.
SearchOutcomes ==
    {[kind |-> "raise", value |-> <<>>], [kind |-> "None", value |-> <<>>],
     [kind |-> "list", value |-> <<>>],
     [kind |-> "list", value |-> <<Sentence(1, "fr", 1)>>],
     [kind |-> "list", value |-> <<Sentence(1, "fr", 1), Sentence(2, "fr", 2)>>]}

\* Faulty variant: an exception of the service leaves the use case.
AfterSearch_Propagates(outcome) ==
    CASE outcome.kind = "raise" -> Exception("Exception", "search")
      [] outcome.kind = "None" -> Returned(<<>>)
      [] OTHER -> Returned(outcome.value)

\* The try block of by_topic and by_difficulty from the await on.  An
\* exception of the service is caught and gives []; None makes len() raise
\* TypeError, caught as well; a list is returned as it is (`sentences if
\* sentences else []`, and an empty list is []).
AfterSearch(outcome) ==
    CASE outcome.kind = "raise" -> Returned(<<>>)
      [] outcome.kind = "None" -> Returned(<<>>)
      [] OTHER -> Returned(IF outcome.value # <<>> THEN outcome.value ELSE <<>>)

\* by_topic and by_difficulty up to the await: [] at once when the topic (the
\* difficulty) or the language is falsy or the limit is not positive, else the
\* service is called with the three arguments.  `key` is the topic or the
\* name of the CardDifficulty member, "None" for None.
SearchCall(method, key, language, limit) ==
    /\ search = NoneV
    /\ search' =
          IF Falsy(key) \/ Falsy(language) \/ limit <= 0
          THEN [kind |-> "search", method |-> method, key |-> key,
                language |-> language, limit |-> limit, pc |-> "done",
                service_calls |-> <<>>, outcome |-> NoneV, ret |-> Returned(<<>>)]
          ELSE [kind |-> "search", method |-> method, key |-> key,
                language |-> language, limit |-> limit, pc |-> "await",
                service_calls |-> <<[method |-> method, key |-> key,
                                     language |-> language, limit |-> limit]>>,
                outcome |-> NoneV, ret |-> Pending]
    /\ UNCHANGED <<useCaseVars, exportOutcome, grammar_service, exporterVars,
                   wrapperVars, openai_response, md5, id_strings>>

by_topic(topic, language, limit) == SearchCall("search_by_topic", topic, language, limit)

by_difficulty(difficulty, language, limit) ==
    SearchCall("search_by_difficulty", difficulty, language, limit)

\* The service answers and the use case runs to its return.
SearchAnswers(outcome) ==
    /\ search # NoneV
    /\ search.pc = "await"
    /\ search' = [search EXCEPT !.pc = "done", !.outcome = outcome,
                                !.ret = AfterSearch(outcome)]
    /\ UNCHANGED <<useCaseVars, exportOutcome, grammar_service, exporterVars,
                   wrapperVars, openai_response, md5, id_strings>>

InitSearch ==
    /\ UseCasesIdle
    /\ grammar_service = "OpenAIGrammarAdapter"
    /\ sha256 = <<>>
    /\ ExporterIdle
    /\ WrappersIdle /\ ProvidersIdle /\ SearchIdle /\ KeysIdle

\* Calls with a topic that is a word, empty or None, a difficulty that is a
\* member or None, a language likewise, and a limit around zero or the default.
NextSearch ==
    \/ \E topic \in {"food", "travel", "", "None"}, language \in {"fr", "de", "", "None"},
          limit \in {-1, 0, 1, 20} : by_topic(topic, language, limit)
    \/ \E difficulty \in {"A1", "C2", "None"}, language \in {"fr", "de", "", "None"},
          limit \in {-1, 0, 1, 20} : by_difficulty(difficulty, language, limit)
    \/ \E outcome \in SearchOutcomes : SearchAnswers(outcome)

SpecSearch == InitSearch /\ [][NextSearch]_vars

\* --------------------------------------------------- the background wrappers
\* run_deck_generation_background (API) and generate_deck_task (Celery) each
\* build a deck generator and call its execute.  The state of one execute call
\* is kept, so the wrappers run one after the other; the call of a wrapper that
\* starts replaces that of the wrapper before it.  The storage service belongs
\* to the container and outlives the call.  No request asks for audio, so the
\* audio and storage awaits of the card pipeline are never reached.
\* The GenerateDeckRequest bodies a client posts: one sentence (min_length=1),
\* the rest left to its defaults (no languages, no audio, grammar notes).
ApiRequests ==
    {[sentences |-> <<1>>, deck_name |-> n, source_lang |-> "None",
      target_lang |-> "None", include_audio |-> FALSE, include_grammar |-> TRUE] :
        n \in DeckNames}

\* The arguments of generate_deck_task; execute gets its defaults for the rest.
CeleryRequests ==
    {[sentences |-> <<1>>, deck_name |-> n, source_lang |-> "None",
      target_lang |-> "None", include_audio |-> FALSE, include_grammar |-> TRUE] :
        n \in DeckNames}

\* A value of TASK_STATUS_DB: the keys status, progress, result_url and error of
\* the dict ("None" for a key that is not there); the message is not kept.
\* progress is the float as it is written.
StatusRecord(status, progress, result_url, error) ==
    [status |-> status, progress |-> progress, result_url |-> result_url,
     error |-> error]

\* Faulty variant: the store is rebuilt with the new record alone.
Put_Only(db, task_id, value) == [t \in {task_id} |-> value]

\* TASK_STATUS_DB[task_id] = value.
Put(db, task_id, value) ==
    [t \in DOMAIN db \cup {task_id} |-> IF t = task_id THEN value ELSE db[t]]

\* TASK_STATUS_DB.get(task_id).
Get(db, task_id) == IF task_id \in DOMAIN db THEN db[task_id] ELSE NoneV

\* No wrapper is inside use_case.execute.
NoWrapperCalling ==
    /\ \A t \in TaskIds : background[t].pc # "calling"
    /\ celery.pc # "calling"

\* container.create_deck_generator(): a new GenerateDeckUseCase, nothing of an
\* earlier call left; the container's storage service is handed on.
CreateDeckGenerator ==
    /\ deck' = NoneV
    /\ exportCalls' = <<>>
    /\ ret' = Pending
    /\ outOfOrder' = FALSE
    /\ exportOutcome' = "-"
    /\ UNCHANGED <<storage, grammar_service, exporterVars>>

\* POST /api/v1/decks: draw a task id, add the background task, store the
\* "queued" record, answer with the id.  The handler has no await: the
\* background task runs after the response.
generate_deck_async(task_id, request) ==
    /\ background[task_id].pc = "-"
    /\ background' = [background EXCEPT ![task_id] =
          [pc |-> "added", request |-> request, outcome |-> Pending, cards |-> 0]]
    /\ TASK_STATUS_DB' =
          Put(TASK_STATUS_DB, task_id, StatusRecord("queued", "None", "None", "None"))
    /\ UNCHANGED <<useCaseVars, exporterVars, status_query, celery,
                   openai_response, md5, search, id_strings>>

\* run_deck_generation_background fails before its try: output_dir.mkdir
\* raises, nothing is stored.
BackgroundMkdirRaises(task_id) ==
    /\ background[task_id].pc = "added"
    /\ background' = [background EXCEPT ![task_id].pc = "crashed"]
    /\ UNCHANGED <<useCaseVars, exporterVars, TASK_STATUS_DB, status_query, celery,
                   openai_response, md5, search, id_strings>>

\* Faulty variant: the except branch writes progress 0.0.
Fail_ResetProgress(record, error) ==
    [record EXCEPT !.status = "failed", !.progress = "0.0", !.error = error]

\* The except branch: status "failed", the progress of the record (0.0 when it
\* has none), the error text.
Fail(record, error) ==
    [record EXCEPT !.status = "failed",
                   !.progress = IF @ = "None" THEN "0.0" ELSE @,
                   !.error = error]

\* run_deck_generation_background stores "processing" with progress 0.0 and
\* container.create_deck_generator() raises (a service is not configured): the
\* except branch stores "failed".
BackgroundCreateRaises(task_id) ==
    /\ background[task_id].pc = "added"
    /\ background' = [background EXCEPT ![task_id].pc = "ended"]
    /\ TASK_STATUS_DB' =
          Put(TASK_STATUS_DB, task_id,
              Fail(StatusRecord("processing", "0.0", "None", "None"), "ValueError"))
    /\ UNCHANGED <<useCaseVars, exporterVars, status_query, celery,
                   openai_response, md5, search, id_strings>>

\* run_deck_generation_background up to the first await inside
\* use_case.execute: store "processing", build the use case, set progress
\* 10.0, call execute.
BackgroundStarts(task_id) ==
    /\ background[task_id].pc = "added"
    /\ NoWrapperCalling
    /\ background' = [background EXCEPT ![task_id].pc = "calling"]
    /\ TASK_STATUS_DB' =
          Put(TASK_STATUS_DB, task_id,
              [StatusRecord("processing", "0.0", "None", "None")
                  EXCEPT !.progress = "10.0"])
    /\ CreateDeckGenerator
    /\ LET r == background[task_id].request IN
       Queue(r.sentences, r.deck_name, r.source_lang, r.target_lang,
             r.include_audio, r.include_grammar)
    /\ UNCHANGED <<status_query, celery, openai_response, md5, search, id_strings>>

\* generate_deck_task up to the first await inside use_case.execute.
CeleryStarts(r) ==
    /\ celery.pc = "idle"
    /\ NoWrapperCalling
    /\ celery' = [celery EXCEPT !.pc = "calling"]
    /\ CreateDeckGenerator
    /\ Queue(r.sentences, r.deck_name, r.source_lang, r.target_lang,
             r.include_audio, r.include_grammar)
    /\ UNCHANGED <<TASK_STATUS_DB, background, status_query, openai_response,
                   md5, search, id_strings>>

\* run_deck_generation_background after `await use_case.execute(...)`:
\* `outcome` is what execute returned or raised.  A truthy return value stores
\* "completed" with progress 100.0 and the download URL; a falsy one raises
\* RuntimeError, which like any exception of execute stores "failed".
BackgroundOutcome(record, outcome) ==
    IF outcome.kind = "return" /\ ~Falsy(outcome.value)
    THEN [record EXCEPT !.status = "completed", !.progress = "100.0",
                        !.result_url = "/api/v1/decks/download/"]
    ELSE Fail(record, IF outcome.kind = "raise" THEN outcome.exc.type
                      ELSE "RuntimeError")

\* generate_deck_task after run_until_complete: the dict it returns, or the
\* exception of execute, which nothing catches.
CeleryOutcome(outcome) ==
    IF outcome.kind = "return"
    THEN [kind |-> "return",
          value |-> [status |-> "completed", output_path |-> outcome.value]]
    ELSE outcome

\* How many cards the call of execute that just ended had gathered.
GatheredCards == Len(Partition(GatherResults))

\* execute has taken a step: if it ended, the wrapper that called it goes on
\* with what execute returned or raised and ends.
WrapperResumes ==
    /\ IF dpc' # "done"
       THEN UNCHANGED <<TASK_STATUS_DB, background, celery>>
       ELSE \/ \E t \in TaskIds :
                  /\ background[t].pc = "calling"
                  /\ background' = [background EXCEPT ![t].pc = "ended",
                        ![t].outcome = ret', ![t].cards = GatheredCards]
                  /\ TASK_STATUS_DB' = [TASK_STATUS_DB EXCEPT ![t] =
                        BackgroundOutcome(@, ret')]
                  /\ UNCHANGED celery
            \/ /\ celery.pc = "calling"
               /\ celery' = [pc |-> "done", outcome |-> CeleryOutcome(ret'),
                             cards |-> GatheredCards]
               /\ UNCHANGED <<TASK_STATUS_DB, background>>
    /\ UNCHANGED <<status_query, openai_response, md5, search, id_strings>>

\* GET /api/v1/decks/status/{task_id}: 404 when TASK_STATUS_DB has no record
\* (or an empty one) for the id, else 200 with the record's fields.  Kept: the
\* id asked for, whether POST had issued it by then, and the status code.
get_deck_status(task_id) ==
    /\ LET status_info == Get(TASK_STATUS_DB, task_id) IN
       status_query' =
          [kind |-> "query", task_id |-> task_id,
           issued |-> background[task_id].pc # "-",
           code |-> IF status_info = NoneV THEN 404 ELSE 200]
    /\ UNCHANGED <<useCaseVars, exporterVars, TASK_STATUS_DB, background, celery,
                   openai_response, md5, search, id_strings>>

InitApi ==
    /\ UseCasesIdle
    /\ grammar_service = "OpenAIGrammarAdapter"
    /\ sha256 = <<>>
    /\ ExporterIdle
    /\ OuterIdle

\* The API's deck tasks: the POST handler, the background function and the
\* execute call inside it.
NextTasks ==
    \/ \E t \in TaskIds, r \in ApiRequests : generate_deck_async(t, r)
    \/ \E t \in TaskIds : BackgroundMkdirRaises(t)
    \/ \E t \in TaskIds : BackgroundCreateRaises(t)
    \/ \E t \in TaskIds : BackgroundStarts(t)
    \/ \E i \in {1} : CardStart(i)
    \/ \E i \in {1} : \E r \in TranslateResults(i) : TranslateReturns(i, r)
    \/ \E i \in {1} : \E r \in AnalyzeResults(i) : AnalyzeReturns(i, r)
    \/ \E i \in {1} : \E r \in GrammarResults : GrammarReturns(i, r)
    \/ \E i \in {1} : PortRaises(i)
    \/ GatherReturned /\ WrapperResumes
    \/ \E p \in ExportResults : ExportReturned(p) /\ WrapperResumes
    \/ ExportRaised /\ WrapperResumes

\* The deck tasks, the status queries and the Celery task.
NextApi ==
    \/ NextTasks
    \/ \E r \in CeleryRequests : CeleryStarts(r)
    \/ \E t \in TaskIds : get_deck_status(t)

SpecApi == InitApi /\ [][NextApi]_vars

\* The scheduling of the event loop and of the providers: a coroutine that can
\* take a step takes it, an awaited port call returns or raises.
UseCaseProgress ==
    \/ \E i \in {1} : PipelineStep(i)
    \/ GatherReturned /\ WrapperResumes
    \/ \E p \in ExportResults : ExportReturned(p) /\ WrapperResumes
    \/ ExportRaised /\ WrapperResumes

\* The deck tasks alone, under that scheduling.
SpecTasksLive == InitApi /\ [][NextTasks]_vars /\ WF_vars(UseCaseProgress)

\* ------------------------------------------------- the dictionary adapter
\* What the OpenAI API answers to analyze_sentence: the call raises, or the
\* message content is not JSON, or it is a JSON object: without "words", with
\* a "words" that is no list, or with a list of items, each a word (a dict
\* with a "text") or something else.
\* `words` says what is under "words" ("list": the items follow).
DictionaryResponses ==
    {[kind |-> k, words |-> "-", items |-> <<>>] : k \in {"raise", "not json"}}
        \cup {[kind |-> "json", words |-> w, items |-> <<>>] :
                w \in {"absent", "no list"}}
        \cup {[kind |-> "json", words |-> "list", items |-> w] :
                w \in {<<>>, <<"word">>, <<"junk">>, <<"word", "junk">>}}

\* models.WordBreakdown as the adapter builds it: the words of the sentence.
WordBreakdownOf(sentence, words) ==
    [kind |-> "WordBreakdown", text |-> sentence, words |-> words]

\* The loop over word_list_data: an item that is a dict with a "text" becomes a
\* Word, any other is skipped.
IsWordData(word_data) == word_data = "word"

\* OpenAIDictionaryAdapter.analyze_sentence on the provider's answer:
\* json.loads, data.get('words', []), a non-list taken as [], the Word
\* objects; both except branches return an empty WordBreakdown.
analyze_sentence(sentence, source_lang, target_lang, response) ==
    IF response.kind \in {"raise", "not json"}
    THEN WordBreakdownOf(sentence, <<>>)
    ELSE LET word_list_data ==
                 IF response.words \in {"absent", "no list"} THEN <<>>
                 ELSE response.items
         IN  WordBreakdownOf(sentence, SelectSeq(word_list_data, IsWordData))

\* The use cases with OpenAIDictionaryAdapter behind the dictionary port; the
\* provider's answer for each sentence is fixed from the start.
InitDictionary ==
    /\ UseCasesIdle
    /\ grammar_service = "OpenAIGrammarAdapter"
    /\ sha256 = <<>>
    /\ ExporterIdle
    /\ WrappersIdle /\ SearchIdle /\ KeysIdle
    /\ md5 = <<>>
    /\ openai_response \in [{1} -> DictionaryResponses]

\* analyze_sentence of the adapter returns: the port's answer is what the
\* adapter makes of the provider's.
AdapterAnalyzeReturns(i) ==
    /\ i \in Idx
    /\ AnalyzeReturns(i, analyze_sentence(args.sentences[i], CardSrcLang, CardTgtLang,
                                          openai_response[args.sentences[i]]))

\* The adapter catches every exception; the other ports may raise.
NextDictionary ==
    \/ \E s \in {<<1>>}, n \in DeckNames, ig \in BOOLEAN :
            Execute(s, n, "None", "None", FALSE, ig)
    \/ \E i \in {1} : CardStart(i)
    \/ \E i \in {1} : \E r \in TranslateResults(i) : TranslateReturns(i, r)
    \/ \E i \in {1} : AdapterAnalyzeReturns(i)
    \/ \E i \in {1} : \E r \in GrammarResults : GrammarReturns(i, r)
    \/ \E i \in {1} : i \in Idx /\ pc[i] # "analyze" /\ PortRaises(i)
    \/ GatherReturns
    \/ \E p \in ExportResults : ExportReturns(p)
    \/ ExportRaises

SpecDictionary == InitDictionary /\ [][NextDictionary]_vars

\* ------------------------------------------------------ the audio adapter
\* The runs of SpecAudio, each a batch of two sentences and the source
\* language passed: the same text twice, two texts, and the same text twice in
\* another language.
AudioRuns ==
    {[sentences |-> <<1, 1>>, source_lang |-> "None"],
     [sentences |-> <<1, 2>>, source_lang |-> "None"],
     [sentences |-> <<1, 1>>, source_lang |-> "de"]}

\* The strings md5 is given in these runs, and the digests it is let to give
\* (two, so that two strings may collide).
Md5Inputs ==
    {Dash(<<Or(r.source_lang, default_source_lang)>>, <<r.sentences[i]>>) :
        r \in AudioRuns, i \in {1, 2}}

\* AudioFormat.MP3.value, the format generate_audio defaults to.
MP3 == "mp3"

\* An AudioFile as the adapter builds it: filename given, language not set.
AudioFileNamed(filename) ==
    [kind |-> "AudioFile", filename |-> filename, language |-> "None"]

\* Faulty variant: the number of files stored so far is put into the name.
TTSFilename_Numbered(text, language, format) ==
    <<md5[Dash(<<language>>, <<text>>)], Cardinality(storage), ".", format>>

\* GoogleTTSAdapter.generate_audio, the filename:
\* f"{md5(f'{language}-{text}').hexdigest()}.{format.value}".
TTSFilename(text, language, format) ==
    <<md5[Dash(<<language>>, <<text>>)], ".", format>>

\* GoogleTTSAdapter.generate_audio: the model and the data when
\* synthesize_speech answered, (None, None) when anything raised.
generate_audio(text, language, format, synthesized) ==
    IF synthesized
    THEN <<AudioFileNamed(TTSFilename(text, language, format)), Bytes>>
    ELSE <<NoneV, NoneV>>

\* What the adapter returns for sentence i; the use case passes no format.
TTSAudioResults(i) ==
    IF i \in Idx
    THEN {generate_audio(args.sentences[i], CardSrcLang, MP3, ok) : ok \in BOOLEAN}
    ELSE {}

\* md5 is any function from the strings to the digests.
InitAudio ==
    /\ UseCasesIdle
    /\ grammar_service = "OpenAIGrammarAdapter"
    /\ sha256 = <<>>
    /\ ExporterIdle
    /\ WrappersIdle /\ SearchIdle /\ KeysIdle
    /\ openai_response = <<>>
    /\ md5 \in [Md5Inputs -> {"d1", "d2"}]

\* A later run: execute is called again on a new use case, with the storage
\* and the exporter of the container, which keep what the runs before left.
ExecuteAgain(sentences, deck_name, source_lang, target_lang, include_audio, include_grammar) ==
    /\ dpc = "done"
    /\ Len(exportCalls) < MaxAudioDecks
    /\ Queue(sentences, deck_name, source_lang, target_lang, include_audio,
             include_grammar)
    /\ deck' = NoneV
    /\ ret' = Pending
    /\ outOfOrder' = FALSE
    /\ exportOutcome' = "-"
    /\ UNCHANGED <<storage, exportCalls, grammar_service, exporterVars, outerVars>>

\* Runs with audio and without grammar notes; the translation and the
\* dictionary answer, the exporter writes the package.
NextAudio ==
    \/ \E r \in AudioRuns, n \in DeckNames :
            Execute(r.sentences, n, r.source_lang, "None", TRUE, FALSE)
    \/ \E r \in AudioRuns, n \in DeckNames :
            ExecuteAgain(r.sentences, n, r.source_lang, "None", TRUE, FALSE)
    \/ \E i \in {1, 2} : CardStart(i)
    \/ \E i \in {1, 2} : i \in Idx /\
            TranslateReturns(i, Translation(args.sentences[i], CardTgtLang))
    \/ \E i \in {1, 2} : i \in Idx /\
            AnalyzeReturns(i, WordBreakdown(args.sentences[i]))
    \/ \E i \in {1, 2} : \E r \in TTSAudioResults(i) : AudioReturns(i, r)
    \/ \E i \in {1, 2} : \E r \in SaveResults : SaveReturns(i, r)
    \/ GatherReturns
    \/ \E p \in {"/out.apkg"} : ExportReturns(p)

SpecAudio == InitAudio /\ [][NextAudio]_vars

\* ------------------------------------------------------------- the claims
Done(i) == i \in Idx /\ pc[i] = "done"
Succeeded(i) == Done(i) /\ result[i].kind = "FlashCard"
Failed(i) == Done(i) /\ result[i].kind = "Exception"

\* No port raised while the pipeline of sentence i ran.
NoPortRaised(i) == \A p \in DOMAIN returned[i] : returned[i][p] # "raise"

\* GenerateDeckUseCase.execute is past its partition of the gathered results.
Partitioned == dpc \in {"export", "done"}

\* The dedicated failure conditions the specification names.
TranslationFailed == Exception("TranslationFailed", "execute")
AnalysisFailed == Exception("AnalysisFailed", "execute")
AllCardsFailed == Exception("AllCardsFailed", "execute")

\* C1: whenever the translation port returned None for a sentence, the card
\* pipeline of that sentence ends with the TranslationFailed condition (and not
\* with a card).
C1_TranslationNoneIsTranslationFailed ==
    \A i \in Idx :
        returned[i].translate = "None" => Done(i) /\ result[i] = TranslationFailed

\* C2: whenever analyze_sentence returned None for a sentence (and no port
\* raised), the finished pipeline ends with the AnalysisFailed condition; no
\* returned card has an absent word breakdown.
C2_AnalysisNoneIsAnalysisFailed ==
    \A i \in Idx :
        /\ (Done(i) /\ returned[i].analyze = "None" /\ NoPortRaised(i))
              => result[i] = AnalysisFailed
        /\ Succeeded(i) => result[i].word_breakdown # NoneV

C4_StorageFailureDiscardsAudio ==
    \A i \in Idx :
        /\ (Done(i) /\ returned[i].translate = "Translation"
              /\ returned[i].analyze = "WordBreakdown"
              /\ returned[i].save = "None" /\ NoPortRaised(i))
              => Succeeded(i) /\ result[i].audio = NoneV
        /\ (Succeeded(i) /\ result[i].audio # NoneV)
              => returned[i].audio = "AudioFile" /\ returned[i].save = "location"

\* The sentences of the batch whose pipeline returned a card.
Successes == {i \in Idx : Succeeded(i)}

\* How many cards of the deck belong to sentence i.
CardsOf(d, i) == Cardinality({k \in DOMAIN d.cards : d.cards[k] = result[i]})

\* C5: once the results are partitioned with at least one success, a Deck exists
\* with exactly one card per successful sentence and none for a failed one (N-k
\* cards), and execute raises only if the exporter raised.
C5_PartialFailureIsolation ==
    (Partitioned /\ Successes # {}) =>
        /\ deck.kind = "Deck"
        /\ Len(deck.cards) = Cardinality(Successes)
        /\ \A i \in Idx : CardsOf(deck, i) = IF Succeeded(i) THEN 1 ELSE 0
        /\ ret.kind = "raise" => ret.exc.origin = "export_deck"

\* C5 witness: a finished batch with a failed and a successful sentence that
\* returned normally.
C5_Witness ==
    /\ dpc = "done" /\ ret.kind = "return"
    /\ \E i, j \in Idx : Failed(i) /\ Succeeded(j)
    /\ Len(deck.cards) = Len(args.sentences) - 1

\* C6: when every sentence of the batch failed, execute ends with the
\* AllCardsFailed error (not a normal return) and no Deck is built.
C6_AllFailedRaises ==
    (dpc = "done" /\ \A i \in Idx : Failed(i)) =>
        /\ ret.kind = "raise"
        /\ ret.exc = AllCardsFailed
        /\ deck = NoneV

\* The cards of deck d, as a set.
CardSet(d) == {d.cards[k] : k \in DOMAIN d.cards}

\* C7: export_deck is invoked at most once, only after every pipeline finished
\* and only if a card succeeded; once the results are partitioned with a
\* success it has been invoked exactly once, with a Deck of exactly the
\* successful cards tagged with the resolved language pair.
C7_ExportOnceAfterAll ==
    /\ Len(exportCalls) <= 1
    /\ exportCalls # <<>> =>
          /\ \A i \in Idx : Done(i)
          /\ Successes # {}
          /\ CardSet(exportCalls[1]) = {result[i] : i \in Successes}
          /\ exportCalls[1].language_pair = <<DeckSrcLang, DeckTgtLang>>
    /\ (Partitioned /\ Successes # {}) => Len(exportCalls) = 1
    /\ (Partitioned /\ Successes = {}) => exportCalls = <<>>

\* C7 witness: the exporter was invoked once for a batch with a failed sentence.
C7_Witness ==
    /\ dpc = "done" /\ Len(exportCalls) = 1
    /\ \E i \in Idx : Failed(i)
    /\ exportCalls[1].language_pair = <<"de", "en">>

\* C8: the deck's cards are in the input-index order of their sentences,
\* whatever the order in which the pipelines finished.
C8_OrderPreserved ==
    deck.kind = "Deck" =>
        /\ \A k \in DOMAIN deck.cards : deck.cards[k].kind = "FlashCard"
        /\ \A k, l \in DOMAIN deck.cards :
              k < l => deck.cards[k].sentence.id < deck.cards[l].sentence.id

\* C8 witness: s1, s2, s3 with s2 failing, the pipelines not finishing in
\* input order, and the deck [card(s1), card(s3)].
C8_Witness ==
    /\ outOfOrder
    /\ Len(args.sentences) = 3 /\ Failed(2)
    /\ deck.kind = "Deck" /\ deck.cards = <<result[1], result[3]>>

\* C9: the results are partitioned only when every pipeline has reached its own
\* outcome, a card or a captured exception; and while the batch is gathered a
\* failed pipeline leaves every unfinished sibling able to take its next step.
C9_NoSiblingCancelled ==
    /\ Partitioned =>
          \A i \in Idx : Done(i) /\ result[i].kind \in {"FlashCard", "Exception"}
    /\ dpc = "gather" =>
          \A i, j \in Idx :
              (Failed(i) /\ pc[j] # "done") => ENABLED PipelineStep(j)

\* C9 witness: the first sentence failed first and every sibling still ran to a
\* card before the partition.
C9_Witness ==
    /\ Partitioned /\ ~outOfOrder /\ Len(args.sentences) >= 2
    /\ Failed(1)
    /\ \A j \in Idx : j > 1 => Succeeded(j)

\* The pipeline is suspended on a provider call that has not returned.
Awaiting(i) == pc[i] \in {"translate", "analyze", "audio", "save", "grammar"}

C11_StableIdInRange ==
    stable_id_call # NoneV =>
        LET h == stable_id_call.hash_value
            low31 == HexValue(<<h[1] % 8>> \o Tail(h))
        IN  /\ stable_id_call.result \in 1..INT31_MASK
            /\ stable_id_call.result = IF low31 = 0 THEN 1 ELSE low31

\* C11 witness: a digest whose low 31 bits are all zero (80000000) came back as 1.
C11_Witness ==
    /\ stable_id_call # NoneV
    /\ stable_id_call.hash_value = <<8, 0, 0, 0, 0, 0, 0, 0>>
    /\ stable_id_call.result = 1

\* C12: two exports of decks with the same language pair use the same model id,
\* and with the same name as well the same deck id, whichever exporter made
\* them, whatever cards they held and whether the model came from the cache.
C12_IdsDeterministic ==
    \A j, k \in DOMAIN exports :
        exports[j].language_pair = exports[k].language_pair =>
            /\ exports[j].model_id = exports[k].model_id
            /\ exports[j].name = exports[k].name =>
                  exports[j].deck_id = exports[k].deck_id

\* C12 witness: the same deck name and pair exported three times: twice by one
\* exporter (the second time with the model from its cache), then by another
\* exporter with other cards, and the three ids agree.
C12_Witness ==
    /\ Len(exports) = 3
    /\ \A k \in 1..3 : exports[k].language_pair = exports[1].language_pair
    /\ exports[2].exporter = exports[1].exporter /\ exports[2].cached
    /\ exports[3].exporter # exports[1].exporter /\ ~exports[3].cached
    /\ Len(exports[3].notes) # Len(exports[1].notes)
    /\ exports[3].deck_id = exports[1].deck_id
    /\ exports[3].model_id = exports[2].model_id

\* C13: two notes exported for the same sentence text under the same language
\* pair (the same card model) carry the same guid.
C13_SameSentenceSameGuid ==
    \A j, k \in DOMAIN exports :
        \A a \in DOMAIN exports[j].notes, b \in DOMAIN exports[k].notes :
            (/\ exports[j].language_pair = exports[k].language_pair
             /\ exports[j].notes[a].text = exports[k].notes[b].text)
                => exports[j].notes[a].guid = exports[k].notes[b].guid

C15_ProviderExceptionsCaught ==
    \A i \in Idx :
        Done(i) =>
            /\ result[i].kind = "Exception" => result[i].type # "ProviderError"
            /\ returned[i].translate = "raise" => result[i] = TranslationFailed
            /\ returned[i].analyze = "raise" => result[i] = AnalysisFailed
            /\ (returned[i].audio = "raise" \/ returned[i].save = "raise") =>
                  Succeeded(i) /\ result[i].audio = NoneV
            /\ returned[i].grammar = "raise" =>
                  Succeeded(i) /\ result[i].grammar_notes = <<>>

\* The five provider ports of the card pipeline.
Ports == {"translate", "analyze", "audio", "save", "grammar"}

\* C16: for every sentence of the batch each port has been invoked at most
\* once, whatever it returned or raised, and GenerateCardUseCase.execute has run
\* at most once; once the results are partitioned it has run exactly once for
\* each input sentence.
C16_NoRetries ==
    /\ dpc # "idle" => Len(calls) = Len(args.sentences)
    /\ \A i \in Idx :
          /\ \A p \in Ports : calls[i][p] <= 1
          /\ calls[i].execute <= 1
          /\ Partitioned => calls[i].execute = 1

\* C16 witness: a finished batch in which a translation came back None, a
\* storage call failed and a port raised, each port invoked once at most.
C16_Witness ==
    /\ dpc = "done"
    /\ \E i, j \in Idx :
          /\ returned[i].translate = "None" /\ calls[i].translate = 1
          /\ returned[j].save = "None" /\ calls[j].save = 1
          /\ returned[j].grammar = "raise" /\ calls[j].grammar = 1

\* C17: in a run with include_audio false neither generate_audio nor save_audio
\* is ever invoked, the storage holds what it held before the run (nothing),
\* and every card returned has audio None.
C17_NoAudioWhenNotRequested ==
    (dpc # "idle" /\ ~args.include_audio) =>
        /\ storage = {}
        /\ \A i \in Idx :
              /\ calls[i].audio = 0 /\ calls[i].save = 0
              /\ returned[i].audio = "-" /\ returned[i].save = "-"
              /\ Succeeded(i) => result[i].audio = NoneV

\* C17 witness: a finished run of three sentences without audio in which a
\* card with grammar notes and no audio was returned.
C17_Witness ==
    /\ dpc = "done" /\ ~args.include_audio /\ Len(args.sentences) = 3
    /\ \E i \in Idx :
          /\ Succeeded(i) /\ result[i].audio = NoneV
          /\ result[i].grammar_notes # <<>>
    /\ storage = {}

\* C18: when include_grammar is false or no grammar service is wired in,
\* explain_grammar is never invoked and a returned card has no grammar notes;
\* when explain_grammar returned a list, the pipeline returned a card whose
\* grammar_notes is that list, the empty list included.
C18_GrammarNeverDecides ==
    dpc # "idle" =>
        \A i \in Idx :
            /\ (~args.include_grammar \/ grammar_service = "None") =>
                  /\ calls[i].grammar = 0 /\ returned[i].grammar = "-"
                  /\ Succeeded(i) => result[i].grammar_notes = <<>>
            /\ returned[i].grammar = "empty" =>
                  Succeeded(i) /\ result[i].grammar_notes = <<>>
            /\ returned[i].grammar = "notes" =>
                  Succeeded(i) /\ result[i].grammar_notes = <<"note">>

\* C18 witness: grammar notes were asked for with no grammar service wired in,
\* and a card without notes was returned.
C18_Witness ==
    /\ dpc = "done" /\ args.include_grammar /\ grammar_service = "None"
    /\ \E i \in Idx :
          /\ Succeeded(i) /\ result[i].grammar_notes = <<>>
          /\ calls[i].grammar = 0

\* A language was passed: not left out, not empty.
LangPassed(lang) == lang \notin {"None", ""}

\* The language a run uses: the one passed, else the default of the construction.
Resolved(lang, default) == IF LangPassed(lang) THEN lang ELSE default

C20_CardsShareDeckLanguagePair ==
    deck.kind = "Deck" =>
        \A k \in DOMAIN deck.cards :
            deck.cards[k].word_breakdown # NoneV =>
            /\ deck.cards[k].sentence.language = deck.language_pair[1]
            /\ deck.cards[k].translation.target_language = deck.language_pair[2]
            /\ deck.cards[k].audio # NoneV =>
                  deck.cards[k].audio.language = deck.language_pair[1]

\* The status TASK_STATUS_DB holds for task id t ("None": no record).
StatusOf(db, t) == IF t \in DOMAIN db THEN db[t].status ELSE "None"

\* The background task of id t called execute and that call has ended.
Executed(t) == background[t].pc = "ended" /\ background[t].outcome # Pending

\* C21: an API task whose call of execute gathered zero cards ends in status
\* "failed" with no result_url, and a Celery task whose call gathered zero
\* cards does not return status "completed".
C21_ZeroCardsNeverCompleted ==
    /\ \A t \in TaskIds :
          (Executed(t) /\ background[t].cards = 0) =>
              /\ TASK_STATUS_DB[t].status = "failed"
              /\ TASK_STATUS_DB[t].result_url = "None"
    /\ (celery.pc = "done" /\ celery.cards = 0) =>
          ~(celery.outcome.kind = "return"
              /\ celery.outcome.value.status = "completed")

\* How far along queued -> processing -> (completed | failed) a status is.
Rank(status) ==
    CASE status = "None" -> 0
      [] status = "queued" -> 1
      [] status = "processing" -> 2
      [] status \in {"completed", "failed"} -> 3

\* One step leaves the record of task id t as it is or moves its status
\* forward; a step to "failed" keeps the progress recorded last (that of the
\* "processing" record, 0.0 when "processing" was stored in the same step).
StatusStep(t) ==
    LET before == StatusOf(TASK_STATUS_DB, t)
        after == StatusOf(TASK_STATUS_DB', t)
    IN  \/ Get(TASK_STATUS_DB', t) = Get(TASK_STATUS_DB, t)
        \/ /\ Rank(after) > Rank(before)
           /\ after = "failed" =>
                 TASK_STATUS_DB'[t].progress =
                    IF before = "processing" THEN TASK_STATUS_DB[t].progress
                    ELSE "0.0"

\* What the records of the terminal statuses carry.
TerminalRecordsOk ==
    \A t \in DOMAIN TASK_STATUS_DB :
        /\ TASK_STATUS_DB[t].status \in {"queued", "processing", "completed", "failed"}
        /\ TASK_STATUS_DB[t].status = "completed" =>
              /\ TASK_STATUS_DB[t].result_url # "None"
              /\ TASK_STATUS_DB[t].progress = "100.0"
        /\ TASK_STATUS_DB[t].status = "failed" =>
              /\ TASK_STATUS_DB[t].error # "None"
              /\ TASK_STATUS_DB[t].progress \in {"0.0", "10.0"}

C27_StatusFoundIffIssued ==
    /\ \A t \in TaskIds : background[t].pc # "-" => t \in DOMAIN TASK_STATUS_DB
    /\ status_query # NoneV =>
          (status_query.code = 404 <=> ~status_query.issued)

\* C27 witness: both ids were issued, and the id whose task had ended before
\* the other one was even started is still found.
C27_Witness ==
    /\ status_query # NoneV /\ status_query.code = 200
    /\ \E u \in TaskIds :
          /\ u # status_query.task_id /\ background[u].pc = "calling"
          /\ background[status_query.task_id].pc = "ended"

\* The provider call or the parsing of its answer failed for sentence i.
DictionaryFailed(i) == openai_response[args.sentences[i]].kind \in {"raise", "not json"}

\* C22: when the provider call or the parsing of its answer failed, the
\* adapter's analyze_sentence returned None (not a WordBreakdown), and the
\* sentence has not yielded a card.
C22_DictionaryFailureIsNoResult ==
    \A i \in Idx :
        (DictionaryFailed(i) /\ returned[i].analyze # "-") =>
            /\ returned[i].analyze = "None"
            /\ ~Succeeded(i)

\* Port p was called for sentence i and has returned a value (not raised).
Answered(i, p) == calls[i][p] = 1 /\ returned[i][p] \notin {"-", "raise"}

\* The port calls of sentence i that have not returned yet.
Outstanding(i) == {p \in Ports : calls[i][p] = 1 /\ returned[i][p] = "-"}

CardsWithAudio ==
    {c \in UNION {CardSet(exportCalls[k]) : k \in DOMAIN exportCalls}
            \cup {result[i] : i \in Successes} : c.audio # NoneV}

\* C24: two cards of identical text and language (the source language, which
\* is the one given to generate_audio), of one batch or of different runs,
\* carry the same audio filename, and the storage holds no more entries than
\* there are (text, language) pairs with audio.
C24_SameTextSameFilename ==
    /\ \A c, d \in CardsWithAudio :
          (c.sentence.text = d.sentence.text
                /\ c.sentence.language = d.sentence.language)
              => c.audio.filename = d.audio.filename
    /\ Cardinality(storage) <=
          Cardinality({<<c.sentence.text, c.sentence.language>> : c \in CardsWithAudio})

\* C24 witness: a second run with the same sentence twice, after a first run
\* that stored the audio of that sentence in the same language; all audio
\* files of the second run were stored and the storage holds one entry.
C24_Witness ==
    /\ Len(exportCalls) = 2 /\ args.sentences = <<1, 1>>
    /\ \A i \in Idx : Succeeded(i) /\ returned[i].save = "location"
    /\ \E c \in CardSet(exportCalls[1]) :
          c.sentence.text = 1 /\ c.audio # NoneV
             /\ c.sentence.language = result[1].sentence.language
    /\ Cardinality(storage) = 1

\* C25: two decks that differ in name or language pair are hashed from
\* different strings, and two different language pairs give different model-id
\* strings.
C25_KeyStringsInjective ==
    (id_strings # NoneV /\ id_strings.deck_keys # <<>>) =>
        /\ id_strings.decks[1] # id_strings.decks[2]
              => id_strings.deck_keys[1] # id_strings.deck_keys[2]
        /\ id_strings.decks[1].lang_pair # id_strings.decks[2].lang_pair
              => id_strings.model_keys[1] # id_strings.model_keys[2]

\* The export_deck calls made, and those that got as far as the loop over
\* the cards.
ExportDeckCalls == {exports[k] : k \in DOMAIN exports}
Converting ==
    {x \in ExportDeckCalls :
        x.deck.cards # <<>> /\ Len(x.deck.language_pair) = 2 /\ ~x.model_raises}

ConvertedAt(x) == DOMAIN x.deck.cards \ x.raising

\* C29: in a call that reached the loop, every card whose conversion did not
\* raise has its note in the deck, in deck order, whatever failed before or
\* after it; successes plus failures is the number of cards; the filenames
\* collected, and the media files of the package, are audio filenames of
\* converted cards; and the call does not raise while one card converted.
C29_FailedCardsSkipped ==
    \A x \in Converting :
        LET conv == x.done.conv
            cards == x.deck.cards
        IN  /\ conv.successful_cards + conv.failed_cards = Len(cards)
            /\ conv.failed_cards = Cardinality(x.raising)
            /\ Len(conv.notes) = Cardinality(ConvertedAt(x))
            /\ \A k \in ConvertedAt(x) :
                  conv.notes[k - Cardinality({j \in x.raising : j < k})].sentence_id
                      = cards[k].sentence.id
            /\ conv.media_filenames =
                  {cards[k].audio.filename :
                      k \in {j \in ConvertedAt(x) : cards[j].audio # NoneV}}
            /\ x.done.file.kind = "Package" =>
                  /\ x.done.file.notes = conv.notes
                  /\ x.done.file.media_files \subseteq conv.media_filenames
            /\ ConvertedAt(x) # {} => x.done.ret.kind = "return"

\* C29 witness: of two cards with different audio files, both in storage, the
\* first failed conversion; the package was written with the note of the
\* second and its audio file alone.
C29_Witness ==
    \E x \in Converting :
        /\ Len(x.deck.cards) = 2 /\ x.raising = {1}
        /\ x.deck.cards[1].audio # NoneV /\ x.deck.cards[2].audio # NoneV
        /\ x.deck.cards[1].audio.filename # x.deck.cards[2].audio.filename
        /\ x.stored = PackageFilenames
        /\ x.done.ret = Returned("/out.apkg")
        /\ Len(x.done.file.notes) = 1
        /\ x.done.file.notes[1].sentence_id = x.deck.cards[2].sentence.id
        /\ x.done.file.media_files = {x.deck.cards[2].audio.filename}

\* C30: a search that ended returned a list and raised nothing; with a falsy
\* topic, difficulty or language, or a limit <= 0, it returned [] and the
\* service was never called; when the service raised or returned None or []
\* it returned []; otherwise it returned the service's list, and the service
\* was called once with the arguments given.
C30_SearchNeverRaises ==
    (search # NoneV /\ search.pc = "done") =>
        /\ search.ret.kind = "return"
        /\ (Falsy(search.key) \/ Falsy(search.language) \/ search.limit <= 0)
              => search.ret.value = <<>> /\ search.service_calls = <<>>
        /\ search.service_calls # <<>> =>
              /\ Len(search.service_calls) = 1
              /\ search.service_calls[1] =
                    [method |-> search.method, key |-> search.key,
                     language |-> search.language, limit |-> search.limit]
              /\ search.outcome.kind \in {"raise", "None"} => search.ret.value = <<>>
              /\ search.outcome.kind = "list" => search.ret.value = search.outcome.value

\* C30 witness: by_difficulty was called with valid arguments, the service
\* raised, and the use case returned [].
C30_Witness ==
    /\ search # NoneV /\ search.pc = "done"
    /\ search.method = "search_by_difficulty"
    /\ search.service_calls # <<>>
    /\ search.outcome.kind = "raise"
    /\ search.ret = Returned(<<>>)

====
